---- MODULE Spec2Model ----
(***************************************************************************)
(* Model of apps/local_components/models.py: the find-or-create entry      *)
(* points Issuer, BadgeClass and BadgeInstance .from_analyzed_instance     *)
(* over the three tables of the relational store.                          *)
(*                                                                         *)
(* A table is a sequence of rows; a row's primary key is its index.        *)
(* Columns that are copied from the payload and that no lookup and no      *)
(* branch of the module reads back (json, errors, image) are not carried.  *)
(* A URL is a positive integer, the blank URL is 0; the URLs of a payload  *)
(* are never blank.                                                        *)
(***************************************************************************)
EXTENDS Integers, Sequences, FiniteSets, TLC

\* ---- bounds ------------------------------------------------------------
NumIssuerUrls == 2
NumBadgeUrls == 1
NumInstanceUrls == 1
NumUsers == 2
MaxInstances == 2

\* ---- values ------------------------------------------------------------
None == 0
BlankUrl == 0

IssuerUrls == 1..NumIssuerUrls
BadgeUrls == 1..NumBadgeUrls
InstanceUrls == 1..NumInstanceUrls
\* an instance URL that no stored row carries
FreshUrl == NumInstanceUrls + 1
Users == 1..NumUsers
\* recipient identifiers (e-mails): that of user 1, and one of no user
RecipientIds == {1, NumUsers + 1}
Procs == {1, 2}

\* issuers, badgeclasses, instances: the three tables
\* last:   the request log (see Log)
\* before: the three tables as the latest request found them
\* procs:  the frames of the concurrent calls (SpecConc)
VARIABLES issuers, badgeclasses, instances, last, before, procs

vars == <<issuers, badgeclasses, instances, last, before, procs>>
tables == [issuers |-> issuers, badgeclasses |-> badgeclasses,
           instances |-> instances]

\* ---- the analyzed badge instance (abi) and the keyword options ----------
\* has_issuer_url = FALSE: reading abi.issuer_url raises AttributeError
\* (0.5 badges); likewise has_badge_url.
Payloads ==
    { a \in [ valid : BOOLEAN,
              has_issuer_url : BOOLEAN, issuer_url : IssuerUrls \cup {BlankUrl},
              has_badge_url : BOOLEAN, badge_url : BadgeUrls \cup {BlankUrl},
              instance_url : InstanceUrls \cup {FreshUrl},
              recipient_id : RecipientIds ] :
        /\ a.has_issuer_url <=> a.issuer_url # BlankUrl
        /\ a.has_badge_url <=> a.badge_url # BlankUrl }

\* **kwargs: the key recipient_user is absent, or present with None or a user
Kwargs ==
    { [k \in {} |-> None] } \cup
    { [k \in {"recipient_user"} |-> u] : u \in Users \cup {None} }

\* kwargs.get(key, default)
KwGet(kwargs, key, default) ==
    IF key \in DOMAIN kwargs THEN kwargs[key] ELSE default

\* faulty variant: the validity check left out
is_valid_skipped(abi) == TRUE

is_valid(abi) == abi.valid

\* utils.find_recipient_user: the user registered under the identifier
find_recipient_user(rid) == IF rid \in Users THEN rid ELSE None

\* ---- the store ----------------------------------------------------------
\* faulty variant: a lookup that never finds a row
ObjectsGetBlind(table, url) == [kind |-> "DoesNotExist", id |-> None]

\* cls.objects.get(url=...)
ObjectsGet(table, url) ==
    LET m == { i \in DOMAIN table : table[i].url = url } IN
    IF m = {} THEN [kind |-> "DoesNotExist", id |-> None]
    ELSE IF Cardinality(m) = 1
         THEN [kind |-> "found", id |-> CHOOSE i \in m : TRUE]
         ELSE [kind |-> "MultipleObjectsReturned", id |-> None]

\* variant: an INSERT that a unique index on url would turn down
InsertUnique(table, row) ==
    IF \E k \in DOMAIN table : table[k].url = row.url THEN table
    ELSE Append(table, row)

\* save() of a new object: INSERT, the primary key is the next one
Insert(table, row) == Append(table, row)

\* faulty variant: the column declared null=True
IssuerNullableColumn == TRUE

\* BadgeClass.issuer is declared null=False
IssuerNullable == FALSE

Return(i, b, n, outcome, result) ==
    [issuers |-> i, badgeclasses |-> b, instances |-> n,
     outcome |-> outcome, result |-> result]

\* faulty variant: the AttributeError left to propagate
OnAttributeErrorRaise(i, b, n) == Return(i, b, n, "AttributeError", None)

\* except AttributeError: return None
OnAttributeError(i, b, n) == Return(i, b, n, "none", None)

\* ---- Issuer.from_analyzed_instance ---------------------------------------
new_issuer(abi) == [url |-> abi.issuer_url]

Issuer_from_analyzed_instance(i, b, n, abi, kwargs) ==
    IF ~is_valid(abi) THEN Return(i, b, n, "ValidationError", None)
    ELSE IF ~abi.has_issuer_url THEN OnAttributeError(i, b, n)
    ELSE LET g == ObjectsGet(i, abi.issuer_url) IN
         IF g.kind = "found" THEN Return(i, b, n, "existing", g.id)
         ELSE IF g.kind = "MultipleObjectsReturned"
              THEN Return(i, b, n, "MultipleObjectsReturned", None)
         ELSE LET i2 == Insert(i, new_issuer(abi)) IN
              Return(i2, b, n, "created", Len(i2))

\* ---- BadgeClass.from_analyzed_instance -----------------------------------
new_badgeclass(abi, issuer) == [url |-> abi.badge_url, issuer |-> issuer]

\* new_badgeclass.issuer = <result of the Issuer call>; new_badgeclass.save()
\* r is the outcome of the nested Issuer call.  A null issuer is refused
\* (ValueError on assignment or IntegrityError on INSERT, by Django version).
BadgeClassSave(r, abi) ==
    IF r.result = None /\ ~IssuerNullable
    THEN Return(r.issuers, r.badgeclasses, r.instances, "IntegrityError", None)
    ELSE LET b2 == Insert(r.badgeclasses, new_badgeclass(abi, r.result)) IN
         Return(r.issuers, b2, r.instances, "created", Len(b2))

BadgeClass_from_analyzed_instance(i, b, n, abi, kwargs) ==
    IF ~is_valid(abi) THEN Return(i, b, n, "ValidationError", None)
    ELSE IF ~abi.has_badge_url THEN OnAttributeError(i, b, n)
    ELSE LET g == ObjectsGet(b, abi.badge_url) IN
         IF g.kind = "found" THEN Return(i, b, n, "existing", g.id)
         ELSE IF g.kind = "MultipleObjectsReturned"
              THEN Return(i, b, n, "MultipleObjectsReturned", None)
         ELSE LET r == Issuer_from_analyzed_instance(i, b, n, abi, kwargs) IN
              IF r.outcome \in {"created", "existing", "none"}
              THEN BadgeClassSave(r, abi)
              ELSE r

\* ---- BadgeInstance.from_analyzed_instance --------------------------------
\* faulty variants: the recipient never attached; attached over a stored one
ShouldAttachNever(existing, kwargs) == FALSE

ShouldAttachAlways(existing, kwargs) ==
    KwGet(kwargs, "recipient_user", None) # None

\* existing_instance.recipient_user is None and
\* kwargs.get('recipient_user') is not None
ShouldAttach(existing, kwargs) ==
    /\ existing.recipient_user = None
    /\ KwGet(kwargs, "recipient_user", None) # None

\* kwargs.get('recipient_user', find_recipient_user(abi.recipient_id))
ResolveRecipient(abi, kwargs) ==
    KwGet(kwargs, "recipient_user", find_recipient_user(abi.recipient_id))

\* faulty variant: the issuer not read from the badgeclass
InferIssuerFirst(b, badgeclass) ==
    IF badgeclass # None THEN 1 ELSE None

\* if new_instance.badgeclass is not None:
\*     new_instance.issuer = new_instance.badgeclass.issuer
InferIssuer(b, badgeclass) ==
    IF badgeclass # None THEN b[badgeclass].issuer ELSE None

\* cls(recipient_user=..., recipient_id=..., json=..., errors=...): url is
\* not passed, so the column keeps the field's blank default
new_instance(abi, kwargs, b, badgeclass) ==
    [url |-> BlankUrl,
     recipient_id |-> abi.recipient_id,
     recipient_user |-> ResolveRecipient(abi, kwargs),
     badgeclass |-> badgeclass,
     issuer |-> InferIssuer(b, badgeclass)]

BadgeInstance_from_analyzed_instance(i, b, n, abi, kwargs) ==
    IF ~is_valid(abi) THEN Return(i, b, n, "ValidationError", None)
    ELSE LET g == ObjectsGet(n, abi.instance_url) IN
         IF g.kind = "found"
         THEN IF ShouldAttach(n[g.id], kwargs)
              THEN Return(i, b,
                          [n EXCEPT ![g.id].recipient_user = kwargs["recipient_user"]],
                          "attached", g.id)
              ELSE Return(i, b, n, "existing", g.id)
         ELSE IF g.kind = "MultipleObjectsReturned"
              THEN Return(i, b, n, "MultipleObjectsReturned", None)
         ELSE LET r == BadgeClass_from_analyzed_instance(i, b, n, abi, kwargs) IN
              IF r.outcome \in {"created", "existing", "none"}
              THEN LET n2 == Insert(r.instances,
                                    new_instance(abi, kwargs, r.badgeclasses, r.result)) IN
                   Return(r.issuers, r.badgeclasses, n2, "created", Len(n2))
              ELSE r

\* ---- sequential requests -------------------------------------------------
\* The request log: the entry point of the latest call, what it was given
\* (validity, the URL it looks up, which concepts the payload has, the
\* options, the recipient identifier) and how it ended (outcome, returned
\* primary key).
Log(op, abi, kwargs, r) ==
    [op |-> op,
     valid |-> abi.valid,
     url |-> CASE op = "Issuer" -> abi.issuer_url
               [] op = "BadgeClass" -> abi.badge_url
               [] OTHER -> abi.instance_url,
     has_issuer_url |-> abi.has_issuer_url,
     has_badge_url |-> abi.has_badge_url,
     recipient_id |-> abi.recipient_id,
     kwargs |-> kwargs,
     outcome |-> r.outcome,
     result |-> r.result]

NoKwargs == [k \in {} |-> None]

NoCall == [op |-> "none", valid |-> FALSE, url |-> BlankUrl,
           has_issuer_url |-> FALSE, has_badge_url |-> FALSE,
           recipient_id |-> None, kwargs |-> NoKwargs,
           outcome |-> "none", result |-> None]

\* The fields an entry point never reads are held fixed in its requests.
IssuerFields(P) ==
    { a \in P : ~a.has_badge_url /\ a.instance_url = 1 /\ a.recipient_id = 1 }

BadgeClassFields(P) ==
    { a \in P : a.instance_url = 1 /\ a.recipient_id = 1 }

\* One request = one whole call of the entry point, nested calls included.
IssuerCall(P, K) ==
    \E abi \in IssuerFields(P), kwargs \in K :
        LET r == Issuer_from_analyzed_instance(issuers, badgeclasses, instances,
                                               abi, kwargs) IN
        /\ issuers' = r.issuers
        /\ badgeclasses' = r.badgeclasses
        /\ instances' = r.instances
        /\ last' = Log("Issuer", abi, kwargs, r)
        /\ before' = tables
        /\ UNCHANGED procs

BadgeClassCall(P, K) ==
    \E abi \in BadgeClassFields(P), kwargs \in K :
        LET r == BadgeClass_from_analyzed_instance(issuers, badgeclasses, instances,
                                                   abi, kwargs) IN
        /\ issuers' = r.issuers
        /\ badgeclasses' = r.badgeclasses
        /\ instances' = r.instances
        /\ last' = Log("BadgeClass", abi, kwargs, r)
        /\ before' = tables
        /\ UNCHANGED procs

\* BadgeInstance rows never stop piling up, so the table is capped.
BadgeInstanceCall(P, K) ==
    \E abi \in P, kwargs \in K :
        LET r == BadgeInstance_from_analyzed_instance(issuers, badgeclasses, instances,
                                                      abi, kwargs) IN
        /\ Len(r.instances) <= MaxInstances
        /\ issuers' = r.issuers
        /\ badgeclasses' = r.badgeclasses
        /\ instances' = r.instances
        /\ last' = Log("BadgeInstance", abi, kwargs, r)
        /\ before' = tables
        /\ UNCHANGED procs

\* The frame of a process that is not inside a call.
Idle == [pc |-> "idle", op |-> "none", abi |-> None, issuer |-> None,
         inserted_issuer |-> FALSE, outcome |-> "none", result |-> None]

\* ---- Spec: requests one after another on an empty store; every shape of
\* payload URL, no options, recipient identifier 1.  Nothing of an invalid
\* payload is read but is_valid(), so one invalid payload per entry point
\* stands for all of them. ---------------------------------------------------
UrlPayloads ==
    { a \in Payloads :
        /\ a.recipient_id = 1 /\ a.instance_url \in InstanceUrls
        /\ ~a.valid => (a.issuer_url = 1 /\ a.instance_url = 1
                        /\ (a.badge_url = 1 \/ a \in IssuerFields(Payloads))) }

IssuerRequest == IssuerCall(UrlPayloads, {NoKwargs})
BadgeClassRequest == BadgeClassCall(UrlPayloads, {NoKwargs})
BadgeInstanceRequest == BadgeInstanceCall(UrlPayloads, {NoKwargs})

Init ==
    /\ issuers = <<>>
    /\ badgeclasses = <<>>
    /\ instances = <<>>
    /\ last = NoCall
    /\ before = tables
    /\ procs = [p \in Procs |-> Idle]

Next == IssuerRequest \/ BadgeClassRequest \/ BadgeInstanceRequest

Spec == Init /\ [][Next]_vars

\* ---- SpecStored: requests one after another on a store that already holds
\* a BadgeInstance row for every URL of InstanceUrls (url is a plain column,
\* written by whoever fills the table), with or without a recipient user;
\* legacy payloads and payloads of badge class 1 of issuer 1, every option ----
StoredPayloads ==
    { a \in Payloads : /\ a.has_issuer_url <=> a.has_badge_url
                       /\ a.issuer_url \in {BlankUrl, 1}
                       /\ a.badge_url \in {BlankUrl, 1} }

StoredIssuerRequest == IssuerCall(StoredPayloads, Kwargs)
StoredBadgeClassRequest == BadgeClassCall(StoredPayloads, Kwargs)
StoredBadgeInstanceRequest == BadgeInstanceCall(StoredPayloads, Kwargs)

StoredRow(url, user) ==
    [url |-> url, recipient_id |-> NumUsers + 1, recipient_user |-> user,
     badgeclass |-> None, issuer |-> None]

InitStored ==
    /\ issuers = <<>>
    /\ badgeclasses = <<>>
    /\ \E f \in [InstanceUrls -> Users \cup {None}] :
          instances = [u \in InstanceUrls |-> StoredRow(u, f[u])]
    /\ last = NoCall
    /\ before = tables
    /\ procs = [p \in Procs |-> Idle]

NextStored ==
    StoredIssuerRequest \/ StoredBadgeClassRequest \/ StoredBadgeInstanceRequest

SpecStored == InitStored /\ [][NextStored]_vars

\* ---- SpecOptions: the requests of SpecStored on an empty store ------------
SpecOptions == Init /\ [][NextStored]_vars

\* ---- SpecConc: two requests at a time.  Each process makes one call of
\* Issuer.from_analyzed_instance or BadgeClass.from_analyzed_instance; a step
\* is one statement on the store (objects.get or save) together with the
\* local statements before it.  The module takes no lock and opens no
\* transaction, so the statements of the two calls interleave freely. --------
ConcPayloads == BadgeClassFields(UrlPayloads)

Frame(pc, op, abi, issuer, ins, outcome, result) ==
    [pc |-> pc, op |-> op, abi |-> abi, issuer |-> issuer,
     inserted_issuer |-> ins, outcome |-> outcome, result |-> result]

Done(f, outcome, result) ==
    [f EXCEPT !.pc = "done", !.outcome = outcome, !.result = result]

\* Issuer.from_analyzed_instance up to and including objects.get, as the
\* entry point (pc = "idle") or called from BadgeClass (pc = "issuer_get").
\* f is the frame with op and abi set.
AfterIssuerGet(f) ==
    IF ~is_valid(f.abi) THEN Done(f, "ValidationError", None)
    ELSE IF ~f.abi.has_issuer_url
         THEN IF f.op = "Issuer" THEN Done(f, "none", None)
              ELSE [f EXCEPT !.pc = "badgeclass_save", !.issuer = None]
    ELSE LET g == ObjectsGet(issuers, f.abi.issuer_url) IN
         IF g.kind = "found"
         THEN IF f.op = "Issuer" THEN Done(f, "existing", g.id)
              ELSE [f EXCEPT !.pc = "badgeclass_save", !.issuer = g.id]
         ELSE IF g.kind = "MultipleObjectsReturned"
              THEN Done(f, "MultipleObjectsReturned", None)
         ELSE [f EXCEPT !.pc = "issuer_save"]

IssuerGet(p) ==
    /\ procs[p].pc = "idle"
    /\ \E abi \in IssuerFields(ConcPayloads) :
          procs' = [procs EXCEPT ![p] =
                      AfterIssuerGet(Frame("idle", "Issuer", abi, None, FALSE, "none", None))]
    /\ UNCHANGED <<issuers, badgeclasses, instances, last, before>>

NestedIssuerGet(p) ==
    /\ procs[p].pc = "issuer_get"
    /\ procs' = [procs EXCEPT ![p] = AfterIssuerGet(procs[p])]
    /\ UNCHANGED <<issuers, badgeclasses, instances, last, before>>

\* new_issuer.save(); return new_issuer
IssuerSave(p) ==
    /\ procs[p].pc = "issuer_save"
    /\ issuers' = Insert(issuers, new_issuer(procs[p].abi))
    /\ procs' = [procs EXCEPT ![p] =
                   IF procs[p].op = "Issuer"
                   THEN [Done(procs[p], "created", Len(issuers'))
                            EXCEPT !.inserted_issuer = TRUE]
                   ELSE [procs[p] EXCEPT !.pc = "badgeclass_save",
                                         !.issuer = Len(issuers'),
                                         !.inserted_issuer = TRUE]]
    /\ UNCHANGED <<badgeclasses, instances, last, before>>

\* BadgeClass.from_analyzed_instance up to and including objects.get
BadgeClassGet(p) ==
    /\ procs[p].pc = "idle"
    /\ \E abi \in ConcPayloads :
          LET f == Frame("idle", "BadgeClass", abi, None, FALSE, "none", None)
              g == ObjectsGet(badgeclasses, abi.badge_url)
          IN procs' = [procs EXCEPT ![p] =
                 IF ~is_valid(abi) THEN Done(f, "ValidationError", None)
                 ELSE IF ~abi.has_badge_url THEN Done(f, "none", None)
                 ELSE IF g.kind = "found" THEN Done(f, "existing", g.id)
                 ELSE IF g.kind = "MultipleObjectsReturned"
                      THEN Done(f, "MultipleObjectsReturned", None)
                 ELSE [f EXCEPT !.pc = "issuer_get"]]
    /\ UNCHANGED <<issuers, badgeclasses, instances, last, before>>

\* new_badgeclass.issuer = ...; new_badgeclass.save(); return new_badgeclass
BadgeClassInsert(p) ==
    /\ procs[p].pc = "badgeclass_save"
    /\ IF procs[p].issuer = None /\ ~IssuerNullable
       THEN /\ procs' = [procs EXCEPT ![p] = Done(procs[p], "IntegrityError", None)]
            /\ UNCHANGED badgeclasses
       ELSE /\ badgeclasses' = Insert(badgeclasses,
                                      new_badgeclass(procs[p].abi, procs[p].issuer))
            /\ procs' = [procs EXCEPT ![p] =
                           Done(procs[p], "created", Len(badgeclasses'))]
    /\ UNCHANGED <<issuers, instances, last, before>>

NextConc ==
    \E p \in Procs :
        \/ IssuerGet(p)
        \/ NestedIssuerGet(p)
        \/ IssuerSave(p)
        \/ BadgeClassGet(p)
        \/ BadgeClassInsert(p)

SpecConc == Init /\ [][NextConc]_vars

\* ---- properties of the sequential requests -------------------------------
Raised == {"ValidationError", "IntegrityError", "MultipleObjectsReturned",
           "AttributeError"}

UniqueUrl(table) ==
    \A j, k \in DOMAIN table : table[j].url = table[k].url => j = k

RowsWithUrl(table, url) == { k \in DOMAIN table : table[k].url = url }

Supplied(kwargs) == KwGet(kwargs, "recipient_user", None)

\* C1: a valid Issuer (BadgeClass) request whose issuer_url (badge_url) is
\* already the url of an Issuer (BadgeClass) row returns that row and writes
\* nothing, and neither table ever holds two rows with one url.
C1_FindOrCreateByUrl ==
    /\ UniqueUrl(issuers) /\ UniqueUrl(badgeclasses)
    /\ \A k \in DOMAIN before.issuers :
          ( /\ last.op = "Issuer" /\ last.valid /\ last.has_issuer_url
            /\ before.issuers[k].url = last.url )
          => (last.result = k /\ tables = before)
    /\ \A k \in DOMAIN before.badgeclasses :
          ( /\ last.op = "BadgeClass" /\ last.valid /\ last.has_badge_url
            /\ before.badgeclasses[k].url = last.url )
          => (last.result = k /\ tables = before)

C1_Witness ==
    /\ last.op = "BadgeClass" /\ last.outcome = "existing"
    /\ before.badgeclasses[last.result].url = last.url
    /\ Len(issuers) = NumIssuerUrls

\* C2: two BadgeInstance requests in a row with valid payloads of the same
\* instance_url return the same row, and afterwards exactly one BadgeInstance
\* row has that url.
C2_InstanceFoundAgain ==
    [][ ( /\ last.op = "BadgeInstance" /\ last.valid /\ last.outcome \notin Raised
          /\ last'.op = "BadgeInstance" /\ last'.valid /\ last'.outcome \notin Raised
          /\ last'.url = last.url )
        => ( /\ last'.result = last.result
             /\ Cardinality(RowsWithUrl(instances', last'.url)) = 1 )
      ]_vars

\* C3: a request with an invalid payload ends in the validation failure and
\* leaves the three tables as they were.
C3_InvalidPayloadRaises ==
    (last.op # "none" /\ ~last.valid)
    => ( /\ last.outcome = "ValidationError"
         /\ last.result = None
         /\ tables = before )

C3_Witness ==
    /\ last.op = "BadgeInstance" /\ ~last.valid
    /\ last.has_badge_url /\ last.has_issuer_url
    /\ last.outcome = "ValidationError"
    /\ Supplied(last.kwargs) # None
    /\ \E k \in DOMAIN instances :
          instances[k].url = last.url /\ instances[k].recipient_user = None
    /\ Len(issuers) = 0 /\ Len(instances) = NumInstanceUrls

\* C4: a BadgeInstance row with a badgeclass has that badgeclass's issuer,
\* and a BadgeInstance row without a badgeclass has no issuer.
C4_IssuerFollowsBadgeClass ==
    \A k \in DOMAIN instances :
        IF instances[k].badgeclass # None
        THEN /\ instances[k].badgeclass \in DOMAIN badgeclasses
             /\ instances[k].issuer = badgeclasses[instances[k].badgeclass].issuer
        ELSE instances[k].issuer = None

C4_Witness ==
    /\ \E k \in DOMAIN instances :
          instances[k].badgeclass # None /\ instances[k].issuer = NumIssuerUrls
    /\ \E k \in DOMAIN instances : instances[k].badgeclass = None

\* C5: a valid BadgeInstance request for the url of a stored row without a
\* recipient user, given the option recipient_user = U with U not null,
\* returns that row with recipient_user = U stored on it and changes nothing
\* else.
C5_RecipientAttached ==
    \A k \in DOMAIN before.instances :
        ( /\ last.op = "BadgeInstance" /\ last.valid
          /\ before.instances[k].url = last.url
          /\ before.instances[k].recipient_user = None
          /\ Supplied(last.kwargs) # None )
        => ( /\ last.result = k
             /\ instances = [before.instances EXCEPT
                               ![k].recipient_user = Supplied(last.kwargs)]
             /\ issuers = before.issuers
             /\ badgeclasses = before.badgeclasses )

C5_Witness ==
    /\ last.op = "BadgeInstance" /\ last.outcome = "attached"
    /\ before.instances[last.result].url = last.url
    /\ before.instances[last.result].recipient_user = None
    /\ instances[last.result].recipient_user = NumUsers
    /\ Supplied(last.kwargs) = NumUsers

\* C6: a valid BadgeInstance request for the url of a stored row that either
\* has a recipient user or comes without a non-null recipient_user option
\* returns that row and changes no row of the three tables.
C6_RepeatIsNoOp ==
    \A k \in DOMAIN before.instances :
        ( /\ last.op = "BadgeInstance" /\ last.valid
          /\ before.instances[k].url = last.url
          /\ ~( before.instances[k].recipient_user = None
                 /\ Supplied(last.kwargs) # None ) )
        => (last.result = k /\ tables = before)

C6_Witness ==
    /\ last.op = "BadgeInstance" /\ last.outcome = "existing"
    /\ before.instances[last.result].url = last.url
    /\ Supplied(last.kwargs) # None
    /\ before.instances[last.result].recipient_user
          \notin {None, Supplied(last.kwargs)}
    /\ last.has_badge_url /\ Len(badgeclasses) > 0

\* C7: on a valid legacy payload (issuer_url and badge_url both missing) the
\* Issuer and the BadgeClass entry point return null, raise nothing and write
\* nothing, and the BadgeInstance entry point returns a persisted row whose
\* badgeclass and issuer are null.
C7_LegacyPayload ==
    (last.valid /\ ~last.has_issuer_url /\ ~last.has_badge_url)
    => /\ last.op \in {"Issuer", "BadgeClass"}
          => ( /\ last.outcome = "none" /\ last.result = None
               /\ tables = before )
       /\ last.op = "BadgeInstance"
          => ( /\ last.outcome \notin Raised
               /\ last.result \in DOMAIN instances
               /\ instances[last.result].badgeclass = None
               /\ instances[last.result].issuer = None
               /\ issuers = before.issuers
               /\ badgeclasses = before.badgeclasses )

C7_Witness ==
    /\ last.op = "BadgeInstance" /\ last.valid
    /\ ~last.has_issuer_url /\ ~last.has_badge_url
    /\ last.outcome = "created"
    /\ Len(instances) = Len(before.instances) + 1
    /\ instances[last.result].badgeclass = None
    /\ Len(badgeclasses) > 0

\* C8: every BadgeClass row references an Issuer row of the store; none has
\* a null issuer.
C8_BadgeClassHasIssuer ==
    \A k \in DOMAIN badgeclasses :
        /\ badgeclasses[k].issuer # None
        /\ badgeclasses[k].issuer \in DOMAIN issuers

C8_Witness ==
    /\ last.op = "BadgeClass" /\ last.valid
    /\ last.has_badge_url /\ ~last.has_issuer_url
    /\ last.outcome = "IntegrityError"
    /\ RowsWithUrl(badgeclasses, last.url) = {}
    /\ Len(issuers) > 0

\* C9: a BadgeInstance row that a request creates has the supplied identity
\* as recipient_user if a non-null one was supplied, and otherwise the user
\* that find_recipient_user gives for the payload's recipient_id.
C9_RecipientResolved ==
    (last.op = "BadgeInstance" /\ last.outcome = "created")
    => instances[last.result].recipient_user =
         IF Supplied(last.kwargs) # None THEN Supplied(last.kwargs)
         ELSE find_recipient_user(last.recipient_id)

\* ---- properties of the concurrent requests -------------------------------
InsertedIssuer(p) == procs[p].inserted_issuer

InsertedBadgeClass(p) ==
    procs[p].op = "BadgeClass" /\ procs[p].outcome = "created"

\* C10: when the lookups of two concurrent calls for one URL both miss, both
\* calls insert, and the table then holds two rows with that URL: nothing in
\* the module refuses the second insert.
C10_BothInsert ==
    \A p, q \in Procs :
        p # q =>
          /\ ( /\ InsertedIssuer(p) /\ InsertedIssuer(q)
               /\ procs[p].abi.issuer_url = procs[q].abi.issuer_url )
             => Cardinality(RowsWithUrl(issuers, procs[p].abi.issuer_url)) = 2
          /\ ( /\ InsertedBadgeClass(p) /\ InsertedBadgeClass(q)
               /\ procs[p].abi.badge_url = procs[q].abi.badge_url )
             => Cardinality(RowsWithUrl(badgeclasses, procs[p].abi.badge_url)) = 2

C10_Witness ==
    /\ \A p \in Procs : procs[p].pc = "done" /\ InsertedBadgeClass(p)
    /\ ~UniqueUrl(issuers)
    /\ ~UniqueUrl(badgeclasses)

====
